---- MODULE Spec2Model ----
(***************************************************************************)
(* Flow execution engine of the agent builder (AgentBuilder component):    *)
(* the graph model (nodes, edges), the execution order resolver            *)
(* getExecutionOrder, the run controller runFlow with its per-node-type    *)
(* executors, and the log panel state logMessages; further the editing    *)
(* handlers of the canvas, exportWorkflow and importWorkflow, and the      *)
(* parameter handling of the API routes the executors call.               *)
(*                                                                         *)
(* JavaScript runs one handler at a time: runFlow executes synchronously   *)
(* from the click up to its first `await fetch`, and again from the        *)
(* settlement of that fetch to the next await or to its return.  Each such *)
(* synchronous section is one action.  Other handlers (a second click on   *)
(* Run Flow, Clear Logs) run only while no section is executing.           *)
(***************************************************************************)
EXTENDS Integers, Sequences, FiniteSets, TLC

VARIABLES
  nodes,        \* useNodesState: sequence of [id, nodeType, label, parameters]
  edges,        \* useEdgesState: sequence of [source, target]
  nodeIdRef,    \* nodeIdRef.current
  logMessages,  \* useState log: sequence of [nodeId, nodeName, output]
  runs,         \* one record per invocation of runFlow (its locals)
  inflight,     \* fetch requests issued and not yet settled
  emitted,      \* history: per run, the entries that run put in the log
  issued,       \* history: per run, the positions whose fetch it issued
  failedAt,     \* history: per run, the position whose executor reported
                \* failure (0 while none has)
  downloads     \* the files exportWorkflow wrote, oldest first, each with
                \* the graph it was written from

vars == <<nodes, edges, nodeIdRef, logMessages, runs, inflight, emitted, issued,
          failedAt, downloads>>

----------------------------------------------------------------------------
(* Bounds of the model *)

MaxNodes == 4        \* most nodes of a chain graph drawn by Init
MaxShapeNodes == 2   \* most nodes of an arbitrarily wired graph drawn by Init
MaxEdges == 2        \* most edges of an arbitrarily wired graph drawn by Init
MaxRuns == 2         \* invocations of runFlow in one behaviour
MaxEditNodes == 2    \* most nodes on the canvas, or in a file, while editing
MaxCounter == 2      \* addNode is not called once nodeIdRef.current is here

RunIds == 1..MaxRuns

----------------------------------------------------------------------------
(* Graph model *)

nodeTypes ==
  {"Start", "End", "Input", "LLM", "Tool", "Memory", "Output", "Web Scraping",
   "Structured Output", "Embedding Generator", "Similarity Search", "Text Note"}

\* node types whose branch of runFlow performs a fetch
RemoteTypes == {"LLM", "Web Scraping", "Embedding Generator", "Similarity Search"}

fetchUrl(nodeType) ==
  CASE nodeType = "LLM" -> "/api/gemini"
    [] nodeType = "Web Scraping" -> "/api/web-scrape"
    [] nodeType = "Embedding Generator" -> "/api/pinecone"
    [] nodeType = "Similarity Search" -> "/api/pinecone"
    [] OTHER -> ""

\* getNodeId formats the counter value it read: `node_${id}`
getNodeId(counter) == "node_" \o ToString(counter)

\* data.parameters of a new node: the object without keys
NoParameters == [key \in {} |-> ""]

\* the node addNode builds once getNodeId has advanced the counter from
\* `counter` to counter + 1: the label shows the advanced counter
newNode(counter, nodeType) ==
  [id |-> getNodeId(counter),
   nodeType |-> nodeType,
   label |-> "Node " \o ToString(counter + 1),
   parameters |-> NoParameters]

\* the value of an absent map entry; `while (currentNodeId)` treats undefined
\* and the empty string alike, so one value stands for both
Undefined == ""

\* an edge target naming no node of the graph
DanglingId == "node_99"

----------------------------------------------------------------------------
(* Execution order resolver *)

\* nodes.find((n) => n.data.nodeType === nodeType) as the index of the first
\* match, 0 when there is none
findByType(nds, nodeType) ==
  LET S == {i \in 1..Len(nds) : nds[i].nodeType = nodeType}
  IN  IF S = {} THEN 0 ELSE CHOOSE i \in S : \A j \in S : i <= j

\* nodes.find((n) => n.id === id) as the index of the first match, 0 when
\* there is none
findById(nds, id) ==
  LET S == {i \in 1..Len(nds) : nds[i].id = id}
  IN  IF S = {} THEN 0 ELSE CHOOSE i \in S : \A j \in S : i <= j

\* adjacencyMap keeping the first edge of a source instead of the last
adjacencyMapFirst(eds, id) ==
  LET S == {i \in 1..Len(eds) : eds[i].source = id}
  IN  IF S = {} THEN Undefined
      ELSE eds[CHOOSE i \in S : \A j \in S : i <= j].target

\* adjacencyMap.get(id) after edges.forEach(e => adjacencyMap.set(e.source,
\* e.target)): a later edge of the same source overwrites an earlier one
adjacencyMap(eds, id) ==
  LET S == {i \in 1..Len(eds) : eds[i].source = id}
  IN  IF S = {} THEN Undefined
      ELSE eds[CHOOSE i \in S : \A j \in S : j <= i].target

\* The while loop of getExecutionOrder.  The loop has no bound of its own.
\* Each node pushed is the first node carrying currentNodeId and the next
\* currentNodeId is a function of the current one, so once more nodes have
\* been pushed than the graph holds an id has repeated and the loop never
\* exits: that outcome is reported as diverges.
RECURSIVE walk(_, _, _, _)
walk(nds, eds, currentNodeId, executionOrder) ==
  IF currentNodeId = Undefined
  THEN [diverges |-> FALSE, order |-> executionOrder]
  ELSE IF Len(executionOrder) > Len(nds)
  THEN [diverges |-> TRUE, order |-> executionOrder]
  ELSE LET i == findById(nds, currentNodeId)
       IN  IF i = 0
           THEN [diverges |-> FALSE, order |-> executionOrder]
           ELSE IF nds[i].nodeType = "End"
           THEN [diverges |-> FALSE, order |-> Append(executionOrder, nds[i])]
           ELSE walk(nds, eds, adjacencyMap(eds, currentNodeId),
                     Append(executionOrder, nds[i]))

\* getExecutionOrder without its final test
reachedEndUnchecked(executionOrder) == TRUE

\* the final test of getExecutionOrder: the last node pushed is an End node
reachedEnd(executionOrder) ==
  /\ Len(executionOrder) > 0
  /\ executionOrder[Len(executionOrder)].nodeType = "End"

\* the null result
NotExecutable == [kind |-> "null", order |-> <<>>]

\* a call that never returns
Diverges == [kind |-> "diverges", order |-> <<>>]

getExecutionOrder(nds, eds) ==
  LET startNode == findByType(nds, "Start")
      endNode == findByType(nds, "End")
  IN  IF startNode = 0 THEN NotExecutable
      ELSE IF endNode = 0 THEN NotExecutable
      ELSE LET w == walk(nds, eds, nds[startNode].id, <<>>)
           IN  IF w.diverges THEN Diverges
               ELSE IF ~reachedEnd(w.order) THEN NotExecutable
               ELSE [kind |-> "order", order |-> w.order]

----------------------------------------------------------------------------
(* Log entries *)

ValidationEntry ==
  [nodeId |-> "system", nodeName |-> "System",
   output |-> "Error: Flow validation failed"]

\* StartMarker counting the nodes between Start and End only
StartMarkerInner(n) ==
  [nodeId |-> "system", nodeName |-> "System",
   output |-> "Flow execution started with " \o ToString(n - 2) \o " nodes"]

StartMarker(n) ==
  [nodeId |-> "system", nodeName |-> "System",
   output |-> "Flow execution started with " \o ToString(n) \o " nodes"]

NodeEntry(node, output) ==
  [nodeId |-> node.id, nodeName |-> node.label, output |-> output]

\* markerEntries with an entry for pass-through nodes too
markerEntriesAll(node) ==
  IF node.nodeType = "Start"
  THEN <<NodeEntry(node, "Starting flow execution...")>>
  ELSE IF node.nodeType = "End"
  THEN <<NodeEntry(node, "Flow execution completed successfully")>>
  ELSE <<NodeEntry(node, "")>>

\* the entries the loop body appends for a node without awaiting anything:
\* one for a Start node, one for an End node, none for any other type
markerEntries(node) ==
  IF node.nodeType = "Start"
  THEN <<NodeEntry(node, "Starting flow execution...")>>
  ELSE IF node.nodeType = "End"
  THEN <<NodeEntry(node, "Flow execution completed successfully")>>
  ELSE <<>>

----------------------------------------------------------------------------
(* Node executors *)

\* what a fetch and the reading of its body can come to
Responses == {"ok", "notok", "rejected", "unparsable", "malformed"}

okOutput(nodeType) ==
  CASE nodeType = "LLM" -> "data.output"
    [] nodeType = "Web Scraping" -> "Extraction Complete"
    [] nodeType = "Embedding Generator" -> "Embedding Generated & Stored"
    [] nodeType = "Similarity Search" -> "Similarity Search Complete"
    [] OTHER -> ""

\* the executor takes its else branch or its catch block.  A 2xx body without
\* the expected fields ("malformed") throws only in the Similarity Search
\* branch, where data.matches.forEach is called inside the try.
executorFails(nodeType, response) ==
  \/ response \in {"notok", "rejected", "unparsable"}
  \/ response = "malformed" /\ nodeType = "Similarity Search"

\* the else branch logs `Error: ${data.error}`, the catch block logs
\* `Error: ${error.message}`
errorMsg(response) ==
  IF response = "notok" THEN "Error: data.error" ELSE "Error: error.message"

\* executorResult without the `return` that follows the error entry
executorResultNoReturn(nodeType, response) ==
  IF executorFails(nodeType, response)
  THEN [output |-> errorMsg(response), error |-> TRUE, return |-> FALSE]
  ELSE [output |-> okOutput(nodeType), error |-> FALSE, return |-> FALSE]

\* The try / if (response.ok) / else / catch of an executor: the output of the
\* entry it appends, whether that is the error entry, and whether the
\* executor then returns from runFlow ("Stop execution on error").
executorResult(nodeType, response) ==
  IF executorFails(nodeType, response)
  THEN [output |-> errorMsg(response), error |-> TRUE, return |-> TRUE]
  ELSE [output |-> okOutput(nodeType), error |-> FALSE, return |-> FALSE]

----------------------------------------------------------------------------
(* Request bodies *)

\* params?.key || dflt: the default stands in when the parameter object has
\* no such key or holds the empty string for it
orElse(params, key, dflt) ==
  IF key \in DOMAIN params /\ params[key] # "" THEN params[key] ELSE dflt

\* requestBody reading the parameters of the node as it is on the canvas now
requestBodyLive(node) ==
  LET i == findById(nodes, node.id)
      params == IF i = 0 THEN NoParameters ELSE nodes[i].parameters
  IN  CASE node.nodeType = "LLM" ->
             [systemInstruction |-> orElse(params, "systemInstruction", ""),
              userMessage |-> orElse(params, "userMessage", ""),
              temperature |-> orElse(params, "temperature", "0.7"),
              maxOutputTokens |-> orElse(params, "maxOutputTokens", "1024"),
              topK |-> orElse(params, "topK", "40")]
        [] node.nodeType = "Web Scraping" ->
             [url |-> orElse(params, "url", ""),
              instruction |-> orElse(params, "instruction", "")]
        [] node.nodeType = "Embedding Generator" ->
             [action |-> "embed",
              text |-> orElse(params, "text", ""),
              source |-> orElse(params, "source", ""),
              info |-> orElse(params, "info", ""),
              tag |-> orElse(params, "tag", ""),
              workflow |-> orElse(params, "workflow", ""),
              nodeId |-> node.id]
        [] node.nodeType = "Similarity Search" ->
             [action |-> "search",
              query |-> orElse(params, "query", ""),
              topK |-> orElse(params, "topK", "5")]
        [] OTHER -> NoParameters

\* the object an executor passes to JSON.stringify as the body of its fetch,
\* built from node.data.parameters of the node the loop holds
requestBody(node) ==
  LET params == node.parameters
  IN  CASE node.nodeType = "LLM" ->
             [systemInstruction |-> orElse(params, "systemInstruction", ""),
              userMessage |-> orElse(params, "userMessage", ""),
              temperature |-> orElse(params, "temperature", "0.7"),
              maxOutputTokens |-> orElse(params, "maxOutputTokens", "1024"),
              topK |-> orElse(params, "topK", "40")]
        [] node.nodeType = "Web Scraping" ->
             [url |-> orElse(params, "url", ""),
              instruction |-> orElse(params, "instruction", "")]
        [] node.nodeType = "Embedding Generator" ->
             [action |-> "embed",
              text |-> orElse(params, "text", ""),
              source |-> orElse(params, "source", ""),
              info |-> orElse(params, "info", ""),
              tag |-> orElse(params, "tag", ""),
              workflow |-> orElse(params, "workflow", ""),
              nodeId |-> node.id]
        [] node.nodeType = "Similarity Search" ->
             [action |-> "search",
              query |-> orElse(params, "query", ""),
              topK |-> orElse(params, "topK", "5")]
        [] OTHER -> NoParameters

----------------------------------------------------------------------------
(* Run controller *)

\* runFlow without its validation
flowValidUnchecked(res) == TRUE

\* `if (!executionOrder)` negated
flowValid(res) == res.kind = "order"

\* runLoop with the fetch of a remote node issued but not awaited
RECURSIVE runLoopNoAwait(_, _, _)
runLoopNoAwait(executionOrder, i, appended) ==
  IF i > Len(executionOrder)
  THEN [pc |-> "done", idx |-> i, appended |-> appended, calls |-> <<>>]
  ELSE LET rest == runLoopNoAwait(executionOrder, i + 1,
                     appended \o markerEntries(executionOrder[i]))
       IN  IF executionOrder[i].nodeType \in RemoteTypes
           THEN [rest EXCEPT !.calls = <<i>> \o @]
           ELSE rest

\* The for loop of runFlow from position i up to the next await or the end of
\* the sequence.  appended: the entries appended so far in this section.
RECURSIVE runLoop(_, _, _)
runLoop(executionOrder, i, appended) ==
  IF i > Len(executionOrder)
  THEN [pc |-> "done", idx |-> i, appended |-> appended, calls |-> <<>>]
  ELSE IF executionOrder[i].nodeType \in RemoteTypes
  THEN [pc |-> "await", idx |-> i, appended |-> appended, calls |-> <<i>>]
  ELSE runLoop(executionOrder, i + 1,
               appended \o markerEntries(executionOrder[i]))

\* the requests a section leaves in flight
requests(r, executionOrder, calls) ==
  {[run |-> r, idx |-> calls[k],
    url |-> fetchUrl(executionOrder[calls[k]].nodeType),
    body |-> requestBody(executionOrder[calls[k]])] : k \in 1..Len(calls)}

\* runFrame with the node collection open to change
runFrameLoose ==
  nodes' \in {nodes, <<>>} /\ UNCHANGED <<edges, nodeIdRef, downloads>>

\* what no statement of runFlow assigns: runFlow calls neither setNodes nor
\* setEdges, never writes nodeIdRef.current and writes no file
runFrame == UNCHANGED <<nodes, edges, nodeIdRef, downloads>>

IdleRun == [pc |-> "idle", outcome |-> "none", executionOrder |-> <<>>, idx |-> 0]

\* getExecutionOrder never returned: the handler, and with it the page's
\* only thread, is stuck
Frozen == \E r \in RunIds : runs[r].pc = "hung"

\* click on Run Flow: runFlow up to its first await
runFlow(r) ==
  /\ ~Frozen
  /\ runs[r].pc = "idle"
  /\ \A q \in RunIds : q < r => runs[q].pc # "idle"
  /\ LET res == getExecutionOrder(nodes, edges)
     IN  IF res.kind = "diverges"
         THEN /\ runs' = [runs EXCEPT ![r].pc = "hung"]
              /\ UNCHANGED <<logMessages, inflight, emitted, issued>>
         ELSE IF ~flowValid(res)
         THEN /\ logMessages' = <<ValidationEntry>>
              /\ runs' = [runs EXCEPT ![r].pc = "done", ![r].outcome = "invalid"]
              /\ emitted' = [emitted EXCEPT ![r] = <<ValidationEntry>>]
              /\ UNCHANGED <<inflight, issued>>
         ELSE LET l == runLoop(res.order, 1, <<>>)
                  entries == <<StartMarker(Len(res.order))>> \o l.appended
              IN  /\ logMessages' = entries
                  /\ runs' = [runs EXCEPT ![r] =
                       [pc |-> l.pc,
                        outcome |-> IF l.pc = "done" THEN "completed" ELSE "none",
                        executionOrder |-> res.order,
                        idx |-> l.idx]]
                  /\ inflight' = inflight \cup requests(r, res.order, l.calls)
                  /\ emitted' = [emitted EXCEPT ![r] = entries]
                  /\ issued' = [issued EXCEPT ![r] = l.calls]
  /\ UNCHANGED failedAt
  /\ runFrame

\* the fetch of request c settles with `response`: runFlow from that await to
\* its next await or its return
fetchSettles(c, response) ==
  /\ ~Frozen
  /\ c \in inflight
  /\ LET r == c.run
         executionOrder == runs[r].executionOrder
         node == executionOrder[c.idx]
         res == executorResult(node.nodeType, response)
         entry == NodeEntry(node, res.output)
     IN  /\ failedAt' = [failedAt EXCEPT ![r] =
                            IF res.error /\ @ = 0 THEN c.idx ELSE @]
         /\ IF res.return
            THEN /\ logMessages' = Append(logMessages, entry)
                 /\ runs' = [runs EXCEPT ![r].pc = "done",
                                         ![r].outcome = "failed",
                                         ![r].idx = c.idx]
                 /\ inflight' = inflight \ {c}
                 /\ emitted' = [emitted EXCEPT ![r] = Append(@, entry)]
                 /\ UNCHANGED issued
            ELSE LET l == runLoop(executionOrder, c.idx + 1, <<entry>>)
                 IN  /\ logMessages' = logMessages \o l.appended
                     /\ runs' = [runs EXCEPT ![r].pc = l.pc,
                          ![r].outcome =
                             IF l.pc = "done" THEN "completed" ELSE "none",
                          ![r].idx = l.idx]
                     /\ inflight' = (inflight \ {c})
                                      \cup requests(r, executionOrder, l.calls)
                     /\ emitted' = [emitted EXCEPT ![r] = @ \o l.appended]
                     /\ issued' = [issued EXCEPT ![r] = @ \o l.calls]
  /\ runFrame

\* click on Clear Logs, rendered only while the log is not empty
clearLogs ==
  /\ ~Frozen
  /\ Len(logMessages) > 0
  /\ logMessages' = <<>>
  /\ UNCHANGED <<nodes, edges, nodeIdRef, runs, inflight, emitted, issued,
                 failedAt, downloads>>

----------------------------------------------------------------------------
(* Initial states: graphs the editing surface and importWorkflow produce *)

\* the edges onConnect lists after connecting node_0 -> node_1 -> ... -> node_m
chainEdges(m) ==
  [k \in 1..m |-> [source |-> getNodeId(k - 1), target |-> getNodeId(k)]]

\* the types of the nodes between Start and End of a chain: any node type in
\* the last two places, Input nodes before them
middles(k) ==
  {mid \in [1..k -> nodeTypes] : \A i \in 1..(k - 2) : mid[i] = "Input"}

\* Chains as addNode and onConnect build them, nodes connected in creation
\* order: a Start node, the middle nodes, an End node.  Besides the complete
\* chain ("valid") the chain whose last edge was never drawn ("deadend"),
\* the chain whose End node was never added ("noend"), and the complete
\* chain an imported file lists with one more edge after the others, from
\* its first node straight to its last ("shortcut").
InitChain ==
  \E k \in 0..(MaxNodes - 2) :
    \E mid \in middles(k) :
      \E shape \in {"valid", "deadend", "noend", "shortcut"} :
        LET types == <<"Start">> \o mid
                       \o (IF shape = "noend" THEN <<>> ELSE <<"End">>)
            n == Len(types)
            shortcut == [source |-> getNodeId(0), target |-> getNodeId(n - 1)]
        IN  /\ nodes = [i \in 1..n |-> newNode(i - 1, types[i])]
            /\ edges = chainEdges(IF shape = "deadend" THEN n - 2 ELSE n - 1)
                         \o (IF shape = "shortcut" THEN <<shortcut>> ELSE <<>>)
            /\ nodeIdRef = n

ShapeTypes == {"Start", "End", "Input"}

\* Any wiring of a few nodes, as importWorkflow can load it: several edges
\* of one source, self loops, cycles, targets naming no node.  The empty
\* graph, the state after construction, is the wiring of no node.
InitShape ==
  \E n \in 0..MaxShapeNodes :
    \E ty \in [1..n -> ShapeTypes] :
      \E m \in 0..MaxEdges :
        \E es \in [1..m -> [source : {getNodeId(k - 1) : k \in 1..n},
                            target : {getNodeId(k - 1) : k \in 1..n}
                                       \cup {DanglingId}]] :
          /\ nodes = [i \in 1..n |-> newNode(i - 1, ty[i])]
          /\ edges = es
          /\ nodeIdRef = n

Init ==
  /\ InitChain \/ InitShape
  /\ logMessages = <<>>
  /\ runs = [r \in RunIds |-> IdleRun]
  /\ inflight = {}
  /\ emitted = [r \in RunIds |-> <<>>]
  /\ issued = [r \in RunIds |-> <<>>]
  /\ failedAt = [r \in RunIds |-> 0]
  /\ downloads = <<>>

\* the run controller: clicks on Run Flow and settlements of its requests
Next ==
  \/ \E r \in RunIds : runFlow(r)
  \/ \E c \in inflight : \E response \in Responses : fetchSettles(c, response)

Spec == Init /\ [][Next]_vars

\* some request in flight settles
settles == \E c \in inflight : \E response \in Responses : fetchSettles(c, response)

\* the chains alone: in the arbitrarily wired graphs of ShapeTypes no node
\* is remote and no run is ever suspended
InitSettling ==
  /\ InitChain
  /\ logMessages = <<>>
  /\ runs = [r \in RunIds |-> IdleRun]
  /\ inflight = {}
  /\ emitted = [r \in RunIds |-> <<>>]
  /\ issued = [r \in RunIds |-> <<>>]
  /\ failedAt = [r \in RunIds |-> 0]
  /\ downloads = <<>>

\* the run controller when every remote call settles: the promise of a
\* fetch, and of reading its body, is fulfilled or rejected in the end
SpecSettling == InitSettling /\ [][Next]_vars /\ WF_vars(settles)

\* the run controller with the user clearing the log at any moment
NextClear == Next \/ clearLogs

SpecClear == Init /\ [][NextClear]_vars

----------------------------------------------------------------------------
(* Editing surface *)

\* the node types picked in the palette while editing
EditTypes == {"Start", "LLM"}

\* the text typed into the rename field
NodeNames == {"A", " "}

\* nodeName.trim()
trim(nodeName) == IF nodeName = " " THEN "" ELSE nodeName

\* the content of the parameter form when it is saved
ParameterForms == {NoParameters, [key \in {"userMessage"} |-> "Hi"]}

\* the run controller's variables, which no editing handler touches
runVars == <<runs, inflight, emitted, issued, failedAt>>

idsOf(nds) == {nds[i].id : i \in 1..Len(nds)}

\* array.filter by position: the elements of seq whose index is not in sel
without(seq, sel) ==
  LET idx == {i \in 1..Len(seq) : i \notin sel}
  IN  [k \in 1..Cardinality(idx) |->
         seq[CHOOSE i \in idx : Cardinality({j \in idx : j < i}) = k - 1]]

\* Add Node with a type picked: getNodeId, then the node is appended
addNode(nodeType) ==
  /\ ~Frozen
  /\ nodeType # ""
  /\ nodeIdRef < MaxCounter
  /\ Len(nodes) < MaxEditNodes
  /\ nodes' = Append(nodes, newNode(nodeIdRef, nodeType))
  /\ nodeIdRef' = nodeIdRef + 1
  /\ UNCHANGED <<edges, logMessages, runVars, downloads>>

\* onConnect without the filter: the new edge is added to the others
onConnectAdded(source, target) ==
  /\ ~Frozen
  /\ edges' = Append(edges, [source |-> source, target |-> target])
  /\ UNCHANGED <<nodes, nodeIdRef, logMessages, runVars, downloads>>

\* a connection drawn from source to target: the edges of that source are
\* filtered out and addEdge appends the new one
onConnect(source, target) ==
  /\ ~Frozen
  /\ edges' = Append(SelectSeq(edges, LAMBDA e : e.source # source),
                     [source |-> source, target |-> target])
  /\ UNCHANGED <<nodes, nodeIdRef, logMessages, runVars, downloads>>

\* handleKeyDown filtering the selected edges only
handleKeyDownSelected(selectedNodes, selectedEdges) ==
  /\ ~Frozen
  /\ nodes' = without(nodes, selectedNodes)
  /\ edges' = without(edges, selectedEdges)
  /\ UNCHANGED <<nodeIdRef, logMessages, runVars, downloads>>

\* Delete or Backspace pressed outside a text field, with these nodes and
\* edges selected: the selected nodes go, and with them every edge that is
\* selected or whose source or target is not the id of a node that stays
handleKeyDown(selectedNodes, selectedEdges) ==
  /\ ~Frozen
  /\ LET kept == without(nodes, selectedNodes)
         gone == {k \in 1..Len(edges) :
                    \/ edges[k].source \notin idsOf(kept)
                    \/ edges[k].target \notin idsOf(kept)
                    \/ k \in selectedEdges}
     IN  /\ nodes' = kept
         /\ edges' = without(edges, gone)
  /\ UNCHANGED <<nodeIdRef, logMessages, runVars, downloads>>

\* the rename field saved for the node double-clicked
updateNodeName(editingNode, nodeName) ==
  /\ ~Frozen
  /\ trim(nodeName) # ""
  /\ nodes' = [i \in 1..Len(nodes) |->
                 IF nodes[i].id = editingNode
                 THEN [nodes[i] EXCEPT !.label = nodeName]
                 ELSE nodes[i]]
  /\ UNCHANGED <<edges, nodeIdRef, logMessages, runVars, downloads>>

\* the parameter form saved for the node expanded
updateNodeParameters(expandedNode, nodeParameters) ==
  /\ ~Frozen
  /\ nodes' = [i \in 1..Len(nodes) |->
                 IF nodes[i].id = expandedNode
                 THEN [nodes[i] EXCEPT !.parameters = nodeParameters]
                 ELSE nodes[i]]
  /\ UNCHANGED <<edges, nodeIdRef, logMessages, runVars, downloads>>

\* a file without the nodeIdCounter field
NoCounter == -1

FileIds == {getNodeId(c) : c \in 0..(MaxCounter - 1)}

\* The files a user can pick: JSON texts holding a node array, an edge array
\* and possibly a counter, texts that do not parse, and JSON values without
\* the nodes or the edges field.  Nothing makes a file the output of
\* exportWorkflow: ids may repeat, edges may share their source and the
\* counter may be below the ids in use.  The nodes of a file are Start nodes
\* and its edges leave node_0.
Files ==
  [kind : {"workflow"},
   nodes : UNION {[1..n -> {newNode(c, "Start") : c \in 0..(MaxCounter - 1)}] :
                    n \in 0..MaxEditNodes},
   edges : UNION {[1..m -> [source : {getNodeId(0)}, target : FileIds]] :
                    m \in 0..MaxEditNodes},
   nodeIdCounter : {NoCounter, 0, MaxCounter}]
  \cup [kind : {"unparsable", "nofields"}, nodes : {<<>>}, edges : {<<>>},
        nodeIdCounter : {NoCounter}]

ImportedEntry(n, m) ==
  [nodeId |-> "system", nodeName |-> "System",
   output |-> "Workflow imported successfully: " \o ToString(n)
                \o " nodes and " \o ToString(m) \o " connections loaded"]

ImportFailedEntry(file) ==
  [nodeId |-> "system", nodeName |-> "System",
   output |-> "Failed to import workflow: "
                \o (IF file.kind = "unparsable" THEN "JSON.parse error"
                    ELSE "Invalid workflow file format")]

\* importWorkflow clearing the canvas before it looks at the file
importWorkflowClearing(file) ==
  /\ ~Frozen
  /\ IF file.kind = "workflow"
     THEN /\ nodes' = file.nodes
          /\ edges' = file.edges
          /\ nodeIdRef' = IF file.nodeIdCounter # NoCounter
                          THEN file.nodeIdCounter ELSE nodeIdRef
          /\ logMessages' = <<ImportedEntry(Len(file.nodes), Len(file.edges))>>
     ELSE /\ logMessages' = <<ImportFailedEntry(file)>>
          /\ nodes' = <<>>
          /\ edges' = <<>>
          /\ UNCHANGED nodeIdRef
  /\ UNCHANGED <<runVars, downloads>>

\* reader.onload of importWorkflow for the file picked
importWorkflow(file) ==
  /\ ~Frozen
  /\ IF file.kind = "workflow"
     THEN /\ nodes' = file.nodes
          /\ edges' = file.edges
          /\ nodeIdRef' = IF file.nodeIdCounter # NoCounter
                          THEN file.nodeIdCounter ELSE nodeIdRef
          /\ logMessages' = <<ImportedEntry(Len(file.nodes), Len(file.edges))>>
     ELSE /\ logMessages' = <<ImportFailedEntry(file)>>
          /\ UNCHANGED <<nodes, edges, nodeIdRef>>
  /\ UNCHANGED <<runVars, downloads>>

\* the state after construction: initialNodes, initialEdges, useRef(0)
InitEdit ==
  /\ nodes = <<>>
  /\ edges = <<>>
  /\ nodeIdRef = 0
  /\ logMessages = <<>>
  /\ runs = [r \in RunIds |-> IdleRun]
  /\ inflight = {}
  /\ emitted = [r \in RunIds |-> <<>>]
  /\ issued = [r \in RunIds |-> <<>>]
  /\ failedAt = [r \in RunIds |-> 0]
  /\ downloads = <<>>

\* the editing handlers
NextEdit ==
  \/ \E nodeType \in EditTypes : addNode(nodeType)
  \/ \E source \in idsOf(nodes) : \E target \in idsOf(nodes) :
       onConnect(source, target)
  \/ \E selectedNodes \in SUBSET (1..Len(nodes)) :
       \E selectedEdges \in SUBSET (1..Len(edges)) :
         handleKeyDown(selectedNodes, selectedEdges)
  \/ \E editingNode \in idsOf(nodes) : \E nodeName \in NodeNames :
       updateNodeName(editingNode, nodeName)
  \/ \E expandedNode \in idsOf(nodes) : \E nodeParameters \in ParameterForms :
       updateNodeParameters(expandedNode, nodeParameters)
  \/ \E file \in Files : importWorkflow(file)
  \/ clearLogs

SpecEdit == InitEdit /\ [][NextEdit]_vars

----------------------------------------------------------------------------
(* Properties *)

\* position in a resolved sequence of the node with this id, 0 when none
posOf(executionOrder, nodeId) == findById(executionOrder, nodeId)

\* the requests of run r that are in flight
inflightOf(r) == {c \in inflight : c.run = r}

\* C1 - Stop on first error.  Once the executor of the node at position i of
\* a run's resolved sequence has reported failure, that run is over: it has
\* no request in flight, and every request it ever issued and every node
\* entry it ever appended is for a position up to i; the last of them is the
\* failing node's.
C1_StopOnFirstError ==
  \A r \in RunIds :
    failedAt[r] > 0 =>
      /\ runs[r].pc = "done"
      /\ runs[r].outcome = "failed"
      /\ inflightOf(r) = {}
      /\ \A k \in 1..Len(issued[r]) : issued[r][k] <= failedAt[r]
      /\ \A k \in 2..Len(emitted[r]) :
            posOf(runs[r].executionOrder, emitted[r][k].nodeId)
              \in 1..failedAt[r]
      /\ emitted[r][Len(emitted[r])].nodeId
            = runs[r].executionOrder[failedAt[r]].id

\* a run failed at its second node and left a later remote node uncalled
C1_Witness ==
  \E r \in RunIds :
    /\ failedAt[r] = 2
    /\ Len(runs[r].executionOrder) = 4
    /\ runs[r].executionOrder[3].nodeType \in RemoteTypes
    /\ runs[r].pc = "done"

\* C10 - Within one run at most one request is in flight, and a request is
\* issued only once every request the run issued before it has settled and
\* has its entry in the log.
C10_OneCallInFlight ==
  \A r \in RunIds :
    /\ Cardinality(inflightOf(r)) <= 1
    /\ \A k \in 1..(Len(issued[r]) - 1) :
          /\ issued[r][k] < issued[r][k + 1]
          /\ \A c \in inflightOf(r) : c.idx # issued[r][k]
          /\ \E j \in 2..Len(emitted[r]) :
                emitted[r][j].nodeId = runs[r].executionOrder[issued[r][k]].id

\* a run waits for its second request, the first settled and logged
C10_Witness ==
  \E r \in RunIds :
    /\ Len(issued[r]) = 2
    /\ \E c \in inflightOf(r) : c.idx = issued[r][2]
    /\ runs[r].pc = "await"

----------------------------------------------------------------------------
(* Properties of the resolver, stated on the graph a state holds *)

countType(nodeType) ==
  Cardinality({i \in 1..Len(nodes) : nodes[i].nodeType = nodeType})

\* some edge leads from node i to node j
hasEdge(i, j) ==
  \E e \in 1..Len(edges) :
    edges[e].source = nodes[i].id /\ edges[e].target = nodes[j].id

\* the last edge listed with node i as its source leads to node j
hasLastEdge(i, j) ==
  LET S == {e \in 1..Len(edges) : edges[e].source = nodes[i].id}
  IN  /\ S # {}
      /\ edges[CHOOSE e \in S : \A f \in S : f <= e].target = nodes[j].id

\* the paths without repeated node that extend p along edges
RECURSIVE pathsFrom(_)
pathsFrom(p) ==
  {p} \cup UNION {pathsFrom(Append(p, j)) :
                    j \in {j \in 1..Len(nodes) :
                             /\ hasEdge(p[Len(p)], j)
                             /\ \A k \in 1..Len(p) : p[k] # j}}

\* the same along last-listed edges only
RECURSIVE lastEdgePathsFrom(_)
lastEdgePathsFrom(p) ==
  {p} \cup UNION {lastEdgePathsFrom(Append(p, j)) :
                    j \in {j \in 1..Len(nodes) :
                             /\ hasLastEdge(p[Len(p)], j)
                             /\ \A k \in 1..Len(p) : p[k] # j}}

startIndexes == {i \in 1..Len(nodes) : nodes[i].nodeType = "Start"}

startToEndPaths ==
  {p \in UNION {pathsFrom(<<s>>) : s \in startIndexes} :
     nodes[p[Len(p)]].nodeType = "End"}

startToEndLastEdgePaths ==
  {p \in UNION {lastEdgePathsFrom(<<s>>) : s \in startIndexes} :
     nodes[p[Len(p)]].nodeType = "End"}

nodesOn(p) == [k \in 1..Len(p) |-> nodes[p[k]]]

C3_MissingMarkerRejected ==
  [][\A r \in RunIds :
       /\ ( /\ (findByType(nodes, "Start") = 0 \/ findByType(nodes, "End") = 0)
            /\ runs[r].pc = "idle"
            /\ runs'[r].pc # "idle" )
          => /\ getExecutionOrder(nodes, edges) = NotExecutable
             /\ logMessages' = <<ValidationEntry>>
             /\ ValidationEntry.nodeId = "system"
             /\ inflight' = inflight
             /\ issued'[r] = <<>>
             /\ emitted'[r] = <<ValidationEntry>>
             /\ runs'[r].pc = "done"
             /\ runs'[r].outcome = "invalid"
       /\ runs[r].outcome = "invalid"
          => /\ runs'[r] = runs[r]
             /\ issued'[r] = issued[r]
             /\ emitted'[r] = emitted[r]
    ]_vars

\* runFlow has rejected a graph that lacks an End node and holds a remote node
C3_Witness ==
  /\ findByType(nodes, "Start") # 0
  /\ findByType(nodes, "End") = 0
  /\ \E i \in 1..Len(nodes) : nodes[i].nodeType \in RemoteTypes
  /\ logMessages = <<ValidationEntry>>
  /\ \E r \in RunIds : runs[r].outcome = "invalid"

\* C4 - A call of runFlow on a graph with more than one Start node or more
\* than one End node is rejected: getExecutionOrder returns null and the run
\* emits exactly one diagnostic entry.
C4_AmbiguousRejected ==
  (countType("Start") > 1 \/ countType("End") > 1) =>
    \A r \in RunIds :
      runs[r].pc \notin {"idle", "hung"} =>
        /\ runs[r].outcome = "invalid"
        /\ emitted[r] = <<ValidationEntry>>

\* C5 - getExecutionOrder terminates on every graph: no call of runFlow is
\* stuck in the traversal.
C5_ResolverTerminates ==
  \A r \in RunIds : runs[r].pc # "hung"

\* C6 - When the walk from Start stops at a node that is not an End node, for
\* want of an outgoing edge or because the edge names no node,
\* getExecutionOrder returns null; no run holds a partial sequence.
C6_DeadEndRejected ==
  /\ (findByType(nodes, "Start") # 0 /\ findByType(nodes, "End") # 0) =>
       LET w == walk(nodes, edges, nodes[findByType(nodes, "Start")].id, <<>>)
       IN  (~w.diverges /\ w.order[Len(w.order)].nodeType # "End")
             => getExecutionOrder(nodes, edges) = NotExecutable
  /\ \A r \in RunIds :
       runs[r].executionOrder # <<>> =>
         runs[r].executionOrder[Len(runs[r].executionOrder)].nodeType = "End"

\* runFlow has rejected a graph whose walk passed a remote node and stopped
\* at a node without outgoing edge
C6_Witness ==
  /\ findByType(nodes, "Start") # 0 /\ findByType(nodes, "End") # 0
  /\ LET w == walk(nodes, edges, nodes[findByType(nodes, "Start")].id, <<>>)
     IN  /\ ~w.diverges
         /\ Len(w.order) >= 2
         /\ w.order[Len(w.order)].nodeType \in RemoteTypes
         /\ adjacencyMap(edges, w.order[Len(w.order)].id) = Undefined
  /\ \E r \in RunIds : runs[r].outcome = "invalid" /\ runs[r].executionOrder = <<>>

----------------------------------------------------------------------------
(* Properties of a run *)

\* the node types for which the loop body appends an entry
LoggedTypes == {"Start", "End"} \cup RemoteTypes

\* the ids of the nodes of those types among the first i of a sequence
loggedIds(executionOrder, i) ==
  LET pre == SelectSeq(SubSeq(executionOrder, 1, i),
                       LAMBDA n : n.nodeType \in LoggedTypes)
  IN  [k \in 1..Len(pre) |-> pre[k].id]

\* the node ids of the entries run r appended after its first entry
emittedIds(r) == [k \in 1..(Len(emitted[r]) - 1) |-> emitted[r][k + 1].nodeId]

\* C7 as claimed - A run in which the node at position i, counted from 0,
\* fails has appended exactly i+2 entries.
C7_FailurePrefixCount ==
  \A r \in RunIds :
    failedAt[r] > 0 => Len(emitted[r]) = (failedAt[r] - 1) + 2

\* C7 amended - A run in which the node at position i fails has appended
\* the start marker and then, in order, one entry for each of the nodes
\* 0..i whose type is Start, End, LLM, Web Scraping, Embedding Generator or
\* Similarity Search; nodes of the other types get no entry, and no node
\* after i gets one.
C7_FailurePrefixLogged ==
  \A r \in RunIds :
    failedAt[r] > 0 =>
      /\ emitted[r][1] = StartMarker(Len(runs[r].executionOrder))
      /\ emittedIds(r) = loggedIds(runs[r].executionOrder, failedAt[r])

\* a run failed at its third node, the second being of a pass-through type
C7_Witness ==
  \E r \in RunIds :
    /\ failedAt[r] = 3
    /\ runs[r].executionOrder[2].nodeType \notin LoggedTypes
    /\ Len(emitted[r]) = 3

\* the nodes of its sequence a run is through with
processed(r) ==
  IF runs[r].pc = "done" THEN Len(runs[r].executionOrder) ELSE runs[r].idx - 1

\* C8 as claimed - A run has appended one entry for each node it has
\* processed, whatever the node's type; a completed run over N nodes has N
\* node entries after the start marker.
C8_EntryPerNode ==
  \A r \in RunIds :
    (runs[r].executionOrder # <<>> /\ failedAt[r] = 0) =>
      Len(emitted[r]) = processed(r) + 1

\* C8 amended - A run has appended, in order, one entry for each node it
\* has processed whose type is Start, End, LLM, Web Scraping, Embedding
\* Generator or Similarity Search, and none for a node of another type; a
\* completed run ends with as many node entries after the start marker as
\* its sequence has nodes of these six types.
C8_EntryPerLoggedNode ==
  \A r \in RunIds :
    (runs[r].executionOrder # <<>> /\ failedAt[r] = 0) =>
      /\ emitted[r][1] = StartMarker(Len(runs[r].executionOrder))
      /\ emittedIds(r) = loggedIds(runs[r].executionOrder, processed(r))

\* a run completed over a sequence holding a pass-through and a remote node
C8_Witness ==
  \E r \in RunIds :
    /\ runs[r].outcome = "completed"
    /\ \E i \in 1..Len(runs[r].executionOrder) :
         runs[r].executionOrder[i].nodeType \notin LoggedTypes
    /\ \E i \in 1..Len(runs[r].executionOrder) :
         runs[r].executionOrder[i].nodeType \in RemoteTypes
    /\ Len(emitted[r]) = Len(runs[r].executionOrder)

\* C9 - In every state the node entries of the log stand in the order of the
\* resolved sequence: an entry for the node at position j never precedes
\* one for a node at a position i < j, nor one for the same node.
C9_LogInSequenceOrder ==
  \A r \in RunIds :
    runs[r].executionOrder # <<>> =>
      \A a, b \in 1..Len(logMessages) :
        ( /\ a < b
          /\ posOf(runs[r].executionOrder, logMessages[a].nodeId) # 0
          /\ posOf(runs[r].executionOrder, logMessages[b].nodeId) # 0 )
        => posOf(runs[r].executionOrder, logMessages[a].nodeId)
             < posOf(runs[r].executionOrder, logMessages[b].nodeId)

----------------------------------------------------------------------------
(* Overlapping runs and the end-to-end scenarios *)

\* the runs suspended on a remote call
runningRuns == {r \in RunIds : runs[r].pc = "await"}

\* C11 - A run request made while a run is suspended on a remote call is
\* rejected: at most one run is ever resolving or running.
C11_BusyRunRejected ==
  Cardinality(runningRuns) <= 1

typesOf(executionOrder) ==
  [k \in 1..Len(executionOrder) |-> executionOrder[k].nodeType]

\* run r is the only invocation of runFlow so far
onlyRun(r) == \A q \in RunIds : q # r => runs[q].pc = "idle"

\* C12 as claimed - For the graph Start -> LLM -> End where the generation
\* call succeeds, the final log of the run is exactly three entries: the
\* start marker reporting 3 nodes, the call's output attributed to the LLM
\* node, the completion marker; and the run is Completed.
C12_ScenarioThreeEntries ==
  \A r \in RunIds :
    ( /\ typesOf(runs[r].executionOrder) = <<"Start", "LLM", "End">>
      /\ runs[r].pc = "done" /\ failedAt[r] = 0 /\ onlyRun(r) )
    => /\ runs[r].outcome = "completed"
       /\ logMessages =
            <<StartMarker(3),
              NodeEntry(runs[r].executionOrder[2], okOutput("LLM")),
              NodeEntry(runs[r].executionOrder[3],
                        "Flow execution completed successfully")>>

\* C12 amended - For the graph Start -> LLM -> End where the generation call
\* succeeds, the run is Completed and has appended exactly four entries: the
\* start marker reporting 3 nodes, the Start node's "Starting flow
\* execution..." entry, the call's output attributed to the LLM node, and
\* the End node's completion entry; they are the whole log when no other
\* run was started.
C12_ScenarioFourEntries ==
  \A r \in RunIds :
    ( /\ typesOf(runs[r].executionOrder) = <<"Start", "LLM", "End">>
      /\ runs[r].pc = "done" /\ failedAt[r] = 0 )
    => /\ runs[r].outcome = "completed"
       /\ emitted[r] =
            <<StartMarker(3),
              NodeEntry(runs[r].executionOrder[1], "Starting flow execution..."),
              NodeEntry(runs[r].executionOrder[2], okOutput("LLM")),
              NodeEntry(runs[r].executionOrder[3],
                        "Flow execution completed successfully")>>
       /\ onlyRun(r) => logMessages = emitted[r]

\* the only run of a Start -> LLM -> End graph completed
C12_Witness ==
  \E r \in RunIds :
    /\ typesOf(nodes) = <<"Start", "LLM", "End">>
    /\ typesOf(runs[r].executionOrder) = <<"Start", "LLM", "End">>
    /\ runs[r].outcome = "completed"
    /\ onlyRun(r)
    /\ Len(logMessages) = 4

\* C13 as claimed - For the graph Start -> LLM -> End where the generation
\* call returns an HTTP error, the run ends Failed with exactly 2 entries,
\* the start marker and the LLM error entry, and the End node is never
\* processed.
C13_ScenarioTwoEntries ==
  \A r \in RunIds :
    ( /\ typesOf(runs[r].executionOrder) = <<"Start", "LLM", "End">>
      /\ failedAt[r] = 2 )
    => /\ runs[r].outcome = "failed"
       /\ Len(emitted[r]) = 2

\* C13 amended - For the graph Start -> LLM -> End where the generation call
\* fails, the run ends Failed with exactly 3 entries: the start marker, the
\* Start node's entry and the LLM node's error entry; no request follows and
\* the End node gets no entry.
C13_ScenarioThreeEntries ==
  \A r \in RunIds :
    ( /\ typesOf(runs[r].executionOrder) = <<"Start", "LLM", "End">>
      /\ failedAt[r] = 2 )
    => /\ runs[r].pc = "done" /\ runs[r].outcome = "failed"
       /\ Len(emitted[r]) = 3
       /\ emitted[r][1] = StartMarker(3)
       /\ emitted[r][2] = NodeEntry(runs[r].executionOrder[1],
                                    "Starting flow execution...")
       /\ emitted[r][3].nodeId = runs[r].executionOrder[2].id
       /\ emitted[r][3].output \in {"Error: data.error", "Error: error.message"}
       /\ inflightOf(r) = {}
       /\ onlyRun(r) => logMessages = emitted[r]

\* the only run of a Start -> LLM -> End graph ended on a non-OK response
C13_Witness ==
  \E r \in RunIds :
    /\ typesOf(nodes) = <<"Start", "LLM", "End">>
    /\ failedAt[r] = 2
    /\ onlyRun(r)
    /\ logMessages[Len(logMessages)].output = "Error: data.error"
    /\ runs[r].outcome = "failed"

----------------------------------------------------------------------------
(* Nodes off the followed path *)

\* the last edge listed with the node of this id as its source leads to the
\* node of that id
lastEdgeLeads(sourceId, targetId) ==
  LET S == {e \in 1..Len(edges) : edges[e].source = sourceId}
  IN  /\ S # {}
      /\ edges[CHOOSE e \in S : \A f \in S : f <= e].target = targetId

\* seq is the followed path of the graph: it starts at the first Start node,
\* goes from each node to the node its last-listed edge names, and stops at
\* the first End node it meets
followedPath(seq) ==
  /\ Len(seq) >= 1
  /\ \A k \in 1..Len(seq) : \E i \in 1..Len(nodes) : nodes[i] = seq[k]
  /\ seq[1].nodeType = "Start"
  /\ \A i \in 1..Len(nodes) :
       nodes[i].nodeType = "Start" =>
         \E j \in 1..i : nodes[j] = seq[1]
  /\ \A k \in 1..(Len(seq) - 1) :
       /\ seq[k].nodeType # "End"
       /\ lastEdgeLeads(seq[k].id, seq[k + 1].id)
  /\ seq[Len(seq)].nodeType = "End"

idsIn(seq) == {seq[k].id : k \in 1..Len(seq)}

\* C14 - In every run the resolved sequence is the followed Start-to-End
\* path, each log entry's nodeId is "system" or the id of a node on it, and
\* a node of the graph that is not on it never receives a remote call and
\* never appears in the log.
C14_OnlyPathNodesRun ==
  \A r \in RunIds :
    runs[r].executionOrder # <<>> =>
      LET path == runs[r].executionOrder
      IN  /\ followedPath(path)
          /\ \A k \in 1..Len(emitted[r]) :
               emitted[r][k].nodeId \in {"system"} \cup idsIn(path)
          /\ \A k \in 1..Len(logMessages) :
               logMessages[k].nodeId \in {"system"} \cup idsIn(path)
          /\ \A k \in 1..Len(issued[r]) : issued[r][k] \in 1..Len(path)
          /\ \A c \in inflightOf(r) :
               /\ c.idx \in 1..Len(path)
               /\ c.url = fetchUrl(path[c.idx].nodeType)

\* a run completed on a graph that holds a remote node off the followed
\* path, and no request was ever made
C14_Witness ==
  \E r \in RunIds :
    /\ runs[r].outcome = "completed"
    /\ \E i \in 1..Len(nodes) :
         /\ nodes[i].nodeType \in RemoteTypes
         /\ \A k \in 1..Len(runs[r].executionOrder) :
              runs[r].executionOrder[k].id # nodes[i].id
    /\ issued[r] = <<>>
    /\ Len(emitted[r]) = Len(runs[r].executionOrder) + 1

----------------------------------------------------------------------------
(* Frame of a run *)

\* C15 - A run never mutates the graph: every step of runFlow, from its
\* trigger to its end and whatever its outcome, leaves the node collection,
\* the edge collection and the node id counter unchanged.
C15_RunLeavesGraph ==
  [][(runs' # runs \/ inflight' # inflight \/ logMessages' # logMessages)
       => (nodes' = nodes /\ edges' = edges /\ nodeIdRef' = nodeIdRef)]_vars

\* one run has completed and another has failed on a graph with nodes
C15_Witness ==
  /\ Len(nodes) >= 3
  /\ \E r \in RunIds : runs[r].outcome = "completed"
  /\ \E r \in RunIds : runs[r].outcome = "failed"
  /\ nodeIdRef = Len(nodes)
  /\ Len(logMessages) > 0

----------------------------------------------------------------------------
(* Invariants of the editing surface *)

\* C16 - After any sequence of editing operations (addNode, onConnect,
\* delete, rename, parameter update, importWorkflow) every node is the
\* source of at most one edge.
C16_OneOutgoingEdge ==
  \A k \in 1..Len(nodes) :
    Cardinality({i \in 1..Len(edges) : edges[i].source = nodes[k].id}) <= 1

\* C17 - Node ids are never reused: the id addNode gives to a node differs
\* from the id of every node present in the graph, so that no two nodes ever
\* share an id.
C17_FreshNodeId ==
  [][( /\ Len(nodes') = Len(nodes) + 1
       /\ SubSeq(nodes', 1, Len(nodes)) = nodes
       /\ nodeIdRef' = nodeIdRef + 1
       /\ logMessages' = logMessages )
       => nodes'[Len(nodes')].id \notin idsOf(nodes)]_vars

\* logMessages' extends logMessages at its end
logExtended ==
  /\ Len(logMessages') >= Len(logMessages)
  /\ SubSeq(logMessages', 1, Len(logMessages)) = logMessages

\* C18 - The log is append-only for the duration of one run: while a run is
\* between its start marker and its terminal state, every step that does
\* not start another run, Clear Logs included, leaves the entries of the
\* log in place and at most adds entries at its end.
C18_LogAppendOnly ==
  [][( /\ \E r \in RunIds : runs[r].pc = "await"
       /\ \A q \in RunIds : runs[q].pc = "idle" => runs'[q].pc = "idle" )
       => logExtended]_vars

----------------------------------------------------------------------------
(* Executors *)

ErrorOutputs == {"Error: data.error", "Error: error.message"}

\* C19 - No executor lets a failure escape: whatever the remote call of an
\* LLM, Web Scraping, Embedding Generator or Similarity Search node comes
\* to, the step that handles it appends exactly one entry for that node, at
\* the end of the log, and runFlow goes on normally: after an error entry it
\* has returned with the run failed and none of its requests in flight,
\* after a success entry it is at its next await or has completed.
C19_ExecutorCatchesAll ==
  [][\A c \in inflight :
       c \notin inflight' =>
         LET r == c.run
             node == runs[r].executionOrder[c.idx]
             n == Len(emitted[r])
             new == SubSeq(emitted'[r], n + 1, Len(emitted'[r]))
         IN  /\ node.nodeType \in RemoteTypes
             /\ SubSeq(emitted'[r], 1, n) = emitted[r]
             /\ Len(new) >= 1
             /\ new[1].nodeId = node.id
             /\ new[1].nodeName = node.label
             /\ \A k \in 2..Len(new) : new[k].nodeId # node.id
             /\ logMessages' = logMessages \o new
             /\ new[1].output \in ErrorOutputs \cup {okOutput(node.nodeType)}
             /\ runs'[r].pc \in {"await", "done"}
             /\ new[1].output \in ErrorOutputs
                  => /\ Len(new) = 1
                     /\ runs'[r].pc = "done" /\ runs'[r].outcome = "failed"
                     /\ \A d \in inflight' : d.run # r
             /\ new[1].output \notin ErrorOutputs
                  => \/ runs'[r].pc = "await" /\ runs'[r].idx > c.idx
                     \/ runs'[r].pc = "done" /\ runs'[r].outcome = "completed"
    ]_vars

\* a Similarity Search executor went through its catch block and the run
\* ended there, its error entry the last of the log
C19_Witness ==
  \E r \in RunIds :
    /\ failedAt[r] > 0
    /\ runs[r].executionOrder[failedAt[r]].nodeType = "Similarity Search"
    /\ runs[r].pc = "done"
    /\ logMessages[Len(logMessages)] =
         NodeEntry(runs[r].executionOrder[failedAt[r]], "Error: error.message")

----------------------------------------------------------------------------
(* Termination of a run *)

lastOf(seq) == seq[Len(seq)]

\* run r has resolved a sequence and runFlow has returned
terminal(r) == runs[r].pc = "done" /\ runs[r].executionOrder # <<>>

\* some run is suspended on a remote call
someRunning == \E r \in RunIds : runs[r].pc = "await"

\* C20 - Every run that resolves a sequence reaches a terminal state once
\* every remote call settles: a suspended run only stays suspended or
\* returns, a run that has returned stays as it is, and whenever runs are
\* suspended a state follows in which none is.  The terminal state is
\* Completed if and only if no executor failed, the End node's completion
\* entry being the last entry of the log when the run gets there; otherwise
\* Failed, the failing node's error entry being the last entry of the log
\* when the run gets there.
C20_RunTerminates ==
  /\ someRunning ~> ~someRunning
  /\ [][\A r \in RunIds :
          /\ runs[r].pc = "await" =>
               \/ runs'[r].pc = "await"
               \/ terminal(r)'
          /\ terminal(r) => runs'[r] = runs[r]
          /\ (~terminal(r) /\ terminal(r)') =>
               lastOf(logMessages') = lastOf(emitted'[r])]_vars
  /\ [](\A r \in RunIds :
          terminal(r) =>
            /\ runs[r].outcome \in {"completed", "failed"}
            /\ runs[r].outcome = "completed" <=> failedAt[r] = 0
            /\ inflightOf(r) = {}
            /\ runs[r].outcome = "completed" =>
                 lastOf(emitted[r]) =
                   NodeEntry(lastOf(runs[r].executionOrder),
                             "Flow execution completed successfully")
            /\ runs[r].outcome = "failed" =>
                 /\ lastOf(emitted[r]).nodeId
                      = runs[r].executionOrder[failedAt[r]].id
                 /\ lastOf(emitted[r]).output \in ErrorOutputs)

\* a run that waited for two remote calls has completed, and a run that
\* waited for one has failed
C20_Witness ==
  /\ \E r \in RunIds :
       /\ runs[r].outcome = "completed"
       /\ Len(issued[r]) = 2
  /\ \E r \in RunIds :
       /\ runs[r].outcome = "failed"
       /\ Len(issued[r]) = 1

----------------------------------------------------------------------------
(* Resolving twice *)

\* run r has called getExecutionOrder
resolved(r) == runs[r].pc # "idle"

\* what the call of run r came to: the null result, or the ids of the
\* sequence in order
resolution(r) ==
  IF runs[r].outcome = "invalid" THEN <<"null">>
  ELSE [k \in 1..Len(runs[r].executionOrder) |-> runs[r].executionOrder[k].id]

----------------------------------------------------------------------------
(* Workflow files *)

MaxDownloads == 1    \* exportWorkflow is not called once it wrote this many files

\* stringify leaving the edge array out
stringifyNoEdges(nds, eds, counter) ==
  [kind |-> "workflow",
   nodes |-> [i \in 1..Len(nds) |->
                [id |-> nds[i].id, nodeType |-> nds[i].nodeType,
                 label |-> nds[i].label, parameters |-> nds[i].parameters]],
   edges |-> <<>>,
   nodeIdCounter |-> counter]

\* JSON.stringify of the workflow object exportWorkflow builds, as the value
\* JSON.parse reads back from that text: an object (kind "workflow") with
\* the node array, the edge array and the counter, every element written
\* property by property in array order.  version and exportedAt are written
\* too; importWorkflow reads neither.
stringify(nds, eds, counter) ==
  [kind |-> "workflow",
   nodes |-> [i \in 1..Len(nds) |->
                [id |-> nds[i].id, nodeType |-> nds[i].nodeType,
                 label |-> nds[i].label, parameters |-> nds[i].parameters]],
   edges |-> [k \in 1..Len(eds) |->
                [source |-> eds[k].source, target |-> eds[k].target]],
   nodeIdCounter |-> counter]

ExportedEntry(n, m) ==
  [nodeId |-> "system", nodeName |-> "System",
   output |-> "Workflow exported successfully with " \o ToString(n)
                \o " nodes and " \o ToString(m) \o " connections"]

\* click on Export: the file is written and the log gets one more entry
exportWorkflow ==
  /\ ~Frozen
  /\ Len(downloads) < MaxDownloads
  /\ downloads' = Append(downloads,
       [file |-> stringify(nodes, edges, nodeIdRef),
        nodes |-> nodes, edges |-> edges])
  /\ logMessages' = Append(logMessages, ExportedEntry(Len(nodes), Len(edges)))
  /\ UNCHANGED <<nodes, edges, nodeIdRef, runVars>>

\* the files picked in the import dialog: a file exported before, a workflow
\* file of no node and no edge, a text that does not parse, a JSON value
\* without the nodes or the edges field
PickedFiles ==
  {downloads[k].file : k \in 1..Len(downloads)}
    \cup [kind : {"workflow", "unparsable", "nofields"},
          nodes : {<<>>}, edges : {<<>>}, nodeIdCounter : {NoCounter}]

\* exporting and importing
NextFile ==
  \/ exportWorkflow
  \/ \E file \in PickedFiles : importWorkflow(file)

\* Chains whose last connection was drawn back to the first node instead of
\* to the End node: the walk of getExecutionOrder never leaves them.
InitLoop ==
  \E k \in 0..(MaxNodes - 2) :
    \E mid \in middles(k) :
      LET types == <<"Start">> \o mid \o <<"End">>
          n == Len(types)
      IN  /\ nodes = [i \in 1..n |-> newNode(i - 1, types[i])]
          /\ edges = chainEdges(n - 2)
                       \o <<[source |-> getNodeId(n - 2), target |-> getNodeId(0)]>>
          /\ nodeIdRef = n

\* the graphs on the canvas when the user turns to the files
InitFile ==
  /\ InitChain \/ InitLoop
  /\ logMessages = <<>>
  /\ runs = [r \in RunIds |-> IdleRun]
  /\ inflight = {}
  /\ emitted = [r \in RunIds |-> <<>>]
  /\ issued = [r \in RunIds |-> <<>>]
  /\ failedAt = [r \in RunIds |-> 0]
  /\ downloads = <<>>

SpecFile == InitFile /\ [][NextFile]_vars

\* the result of getExecutionOrder as the claim compares it: its kind and
\* the ids of the sequence in order
resultIds(res) ==
  [kind |-> res.kind, ids |-> [k \in 1..Len(res.order) |-> res.order[k].id]]

----------------------------------------------------------------------------
(* API routes *)

\* Numbers are counted in tenths: 0.7 is 7, 1024 is 10240.
NaN == -1

\* parseFloat on the texts the parameter forms hold; any other text, the
\* empty one included, has no numeric prefix
parseFloat(text) ==
  CASE text = "0.7" -> 7
    [] text = "0.2" -> 2
    [] text = "0" -> 0
    [] text = "3" -> 30
    [] text = "5" -> 50
    [] text = "40" -> 400
    [] text = "1024" -> 10240
    [] OTHER -> NaN

\* parseInt stops at the decimal point
parseInt(text) ==
  LET x == parseFloat(text)
  IN  IF x = NaN THEN NaN ELSE (x \div 10) * 10

\* generation route, lines 14-19: 400 unless userMessage is a non-empty text
geminiRejects(body) == body.userMessage = ""

\* generation route, lines 29-34 and 59-64: a non-empty text is parsed,
\* whatever it holds; the default is taken for the empty text only
generationConfig(body) ==
  [temperature |-> IF body.temperature # ""
                   THEN parseFloat(body.temperature) ELSE 7,
   maxOutputTokens |-> IF body.maxOutputTokens # ""
                       THEN parseInt(body.maxOutputTokens) ELSE 10240,
   topK |-> IF body.topK # "" THEN parseInt(body.topK) ELSE 400]

\* extraction route: 400 unless url and instruction are non-empty
webScrapeRejects(body) == body.url = "" \/ body.instruction = ""

\* vector route: 400 unless text (embed) or query (search) is non-empty
pineconeRejects(body) ==
  \/ body.action = "embed" /\ body.text = ""
  \/ body.action = "search" /\ body.query = ""

\* vector route, search action: parseInt(topK) || 5, NaN and 0 being falsy
topKResults(body) ==
  LET n == parseInt(body.topK)
  IN  IF n = NaN \/ n = 0 THEN 50 ELSE n

\* the route answers 400 before doing anything else
routeRejects(url, body) ==
  CASE url = "/api/gemini" -> geminiRejects(body)
    [] url = "/api/web-scrape" -> webScrapeRejects(body)
    [] url = "/api/pinecone" -> pineconeRejects(body)
    [] OTHER -> FALSE

\* served with a route that lets every body through
servedUnvalidated(url, body) == Responses

\* What a fetch of the route can come to for this body.  A body the route
\* rejects gets the 400 answer with its error field, unless the request
\* never gets that far or the answer does not reach the page as JSON; any
\* other body can fare in every way, the route depending on API keys and
\* on the services behind it.
served(url, body) ==
  IF routeRejects(url, body)
  THEN {"notok", "rejected", "unparsable"}
  ELSE Responses

\* the fetch of request c settles with an answer of its route
routeResponds(c) ==
  \E response \in served(c.url, c.body) : fetchSettles(c, response)

\* the texts saved in the parameter forms, per node type
Forms(nodeType) ==
  {NoParameters} \cup
  CASE nodeType = "LLM" ->
         [userMessage : {"", "Hi"}, temperature : {"", "abc", "0.2"},
          maxOutputTokens : {"", "abc", "3"}, topK : {"", "abc", "3"}]
    [] nodeType = "Web Scraping" ->
         [url : {"", "u"}, instruction : {"", "i"}]
    [] nodeType = "Embedding Generator" -> [text : {"", "t"}]
    [] nodeType = "Similarity Search" ->
         [query : {"", "q"}, topK : {"", "abc", "3", "0"}]
    [] OTHER -> {}

\* A chain of a Start node, a remote node whose parameter form was saved,
\* possibly an LLM node left as added, and an End node.
InitServed ==
  /\ \E nodeType \in RemoteTypes :
       \E form \in Forms(nodeType) :
         \E more \in {<<>>, <<"LLM">>} :
           LET types == <<"Start", nodeType>> \o more \o <<"End">>
               n == Len(types)
           IN  /\ nodes = [i \in 1..n |->
                             IF i = 2
                             THEN [newNode(1, nodeType) EXCEPT !.parameters = form]
                             ELSE newNode(i - 1, types[i])]
               /\ edges = chainEdges(n - 1)
               /\ nodeIdRef = n
  /\ logMessages = <<>>
  /\ runs = [r \in RunIds |-> IdleRun]
  /\ inflight = {}
  /\ emitted = [r \in RunIds |-> <<>>]
  /\ issued = [r \in RunIds |-> <<>>]
  /\ failedAt = [r \in RunIds |-> 0]
  /\ downloads = <<>>

\* the run controller with the routes answering
NextServed ==
  \/ \E r \in RunIds : runFlow(r)
  \/ \E c \in inflight : routeResponds(c)

SpecServed == InitServed /\ [][NextServed]_vars

\* the text is empty or has no numeric prefix
blankOrUnparsable(params, key) ==
  \/ key \notin DOMAIN params
  \/ params[key] = ""
  \/ parseFloat(params[key]) = NaN

\* the node whose executor issued request c
nodeOf(c) == runs[c.run].executionOrder[c.idx]

\* C23 - Numeric parameters fall back to their defaults when blank or
\* unparsable: for every LLM request the generation route lets through,
\* temperature, maxOutputTokens and topK of the generation config are 0.7,
\* 1024 and 40 whenever the node's parameter is empty or does not parse as
\* a number, and for every similarity search request the route lets
\* through topK is 5 whenever the node's parameter is empty or does not
\* parse.
C23_NumericDefaults ==
  \A c \in inflight :
    LET params == nodeOf(c).parameters
    IN  /\ (c.url = "/api/gemini" /\ ~geminiRejects(c.body)) =>
             LET cfg == generationConfig(c.body)
             IN  /\ blankOrUnparsable(params, "temperature")
                      => cfg.temperature = 7
                 /\ blankOrUnparsable(params, "maxOutputTokens")
                      => cfg.maxOutputTokens = 10240
                 /\ blankOrUnparsable(params, "topK") => cfg.topK = 400
        /\ (c.url = "/api/pinecone" /\ c.body.action = "search"
              /\ ~pineconeRejects(c.body)) =>
             (blankOrUnparsable(params, "topK") => topKResults(c.body) = 50)

----------------------------------------------------------------------------
(* Editing while a run is suspended *)

\* a parameter form filled in so that the node's route lets its request
\* through
ValidForm(nodeType) ==
  CASE nodeType = "LLM" -> [key \in {"userMessage"} |-> "Hello"]
    [] nodeType = "Web Scraping" ->
         [key \in {"url", "instruction"} |-> IF key = "url" THEN "u" ELSE "i"]
    [] nodeType = "Embedding Generator" -> [key \in {"text"} |-> "t"]
    [] nodeType = "Similarity Search" -> [key \in {"query"} |-> "q"]
    [] OTHER -> NoParameters

\* the chain Start, a remote node, an LLM node, End, both forms filled in
InitLive ==
  /\ \E nodeType \in RemoteTypes :
       LET types == <<"Start", nodeType, "LLM", "End">>
       IN  /\ nodes = [i \in 1..4 |->
                         [newNode(i - 1, types[i]) EXCEPT
                            !.parameters = ValidForm(types[i])]]
           /\ edges = chainEdges(3)
           /\ nodeIdRef = 4
  /\ logMessages = <<>>
  /\ runs = [r \in RunIds |-> IdleRun]
  /\ inflight = {}
  /\ emitted = [r \in RunIds |-> <<>>]
  /\ issued = [r \in RunIds |-> <<>>]
  /\ failedAt = [r \in RunIds |-> 0]
  /\ downloads = <<>>

\* the ids of the nodes whose parameter panel opens: the remote nodes
remoteIds(nds) ==
  {nds[i].id : i \in {j \in 1..Len(nds) : nds[j].nodeType \in RemoteTypes}}

\* One run, and the user editing the graph while it is suspended on a remote
\* call: a node renamed, a parameter form saved, one node deleted, the
\* connection leaving the Start node drawn anew.
NextLive ==
  \/ runFlow(1)
  \/ \E c \in inflight : routeResponds(c)
  \/ /\ someRunning
     /\ \/ \E editingNode \in idsOf(nodes) : \E nodeName \in NodeNames :
             updateNodeName(editingNode, nodeName)
        \/ \E expandedNode \in remoteIds(nodes) :
             \E nodeParameters \in ParameterForms :
               updateNodeParameters(expandedNode, nodeParameters)
        \/ \E k \in 1..Len(nodes) : handleKeyDown({k}, {})
        \/ \E target \in idsOf(nodes) : onConnect(getNodeId(0), target)

SpecLive == InitLive /\ [][NextLive]_vars

\* the entries run r appends in the step
appendedBy(r) == SubSeq(emitted'[r], Len(emitted[r]) + 1, Len(emitted'[r]))

\* C24 - Each log entry's nodeName is the label the node has at the time
\* that node is executed: every entry a run appends for a node that is on
\* the canvas carries the label that node has on the canvas in that moment,
\* also when the node was renamed after the run was triggered.
C24_LabelAtExecution ==
  [][\A r \in RunIds :
       \A k \in 1..Len(appendedBy(r)) :
         LET entry == appendedBy(r)[k]
             i == findById(nodes, entry.nodeId)
         IN  i # 0 => entry.nodeName = nodes[i].label]_vars

\* the required parameter of the node is blank: its route answers 400
requiredBlank(node) ==
  CASE node.nodeType = "LLM" ->
         orElse(node.parameters, "userMessage", "") = ""
    [] node.nodeType = "Web Scraping" ->
         \/ orElse(node.parameters, "url", "") = ""
         \/ orElse(node.parameters, "instruction", "") = ""
    [] node.nodeType = "Embedding Generator" ->
         orElse(node.parameters, "text", "") = ""
    [] node.nodeType = "Similarity Search" ->
         orElse(node.parameters, "query", "") = ""
    [] OTHER -> FALSE

\* the positions of run r whose request has settled
settledOf(r) ==
  {issued[r][k] : k \in 1..Len(issued[r])} \ {c.idx : c \in inflightOf(r)}

\* C25 - A node whose required parameter is blank fails its executor.  Once
\* the request of an LLM node with empty userMessage, of a Web Scraping node
\* with empty url or instruction, of an Embedding Generator node with empty
\* text or of a Similarity Search node with empty query has settled, the
\* run has failed at that node: the node's error entry is the last entry
\* the run appended, and the run has returned without a request or an entry
\* for any later node.
C25_BlankRequiredFails ==
  \A r \in RunIds :
    \A i \in settledOf(r) :
      LET node == runs[r].executionOrder[i]
      IN  requiredBlank(node) =>
            /\ failedAt[r] = i
            /\ runs[r].pc = "done" /\ runs[r].outcome = "failed"
            /\ lastOf(emitted[r]).nodeId = node.id
            /\ lastOf(emitted[r]).output \in ErrorOutputs
            /\ \A k \in 1..Len(issued[r]) : issued[r][k] <= i
            /\ \A k \in 2..Len(emitted[r]) :
                 posOf(runs[r].executionOrder, emitted[r][k].nodeId) \in 1..i
            /\ inflightOf(r) = {}

\* a Web Scraping node with its url filled in and its instruction empty got
\* the 400 answer, and the LLM node after it was never called
C25_Witness ==
  \E r \in RunIds :
    /\ failedAt[r] = 2
    /\ Len(runs[r].executionOrder) = 4
    /\ runs[r].executionOrder[2].nodeType = "Web Scraping"
    /\ runs[r].executionOrder[2].parameters
         = [url |-> "u", instruction |-> ""]
    /\ lastOf(emitted[r]) =
         NodeEntry(runs[r].executionOrder[2], "Error: data.error")
    /\ issued[r] = <<2>>

----------------------------------------------------------------------------
(* Connecting and deleting *)

\* drawing on the canvas: nodes added and renamed, connections drawn between
\* nodes of the canvas, selections deleted
NextCanvas ==
  \/ \E nodeType \in EditTypes : addNode(nodeType)
  \/ \E editingNode \in idsOf(nodes) : \E nodeName \in NodeNames :
       updateNodeName(editingNode, nodeName)
  \/ \E source \in idsOf(nodes) : \E target \in idsOf(nodes) :
       onConnect(source, target)
  \/ \E selectedNodes \in SUBSET (1..Len(nodes)) :
       \E selectedEdges \in SUBSET (1..Len(edges)) :
         handleKeyDown(selectedNodes, selectedEdges)

SpecCanvas == InitEdit /\ [][NextCanvas]_vars

\* the edges leaving source, in the order of the collection
edgesFrom(eds, source) == SelectSeq(eds, LAMBDA e : e.source = source)

\* the edges leaving any other node, in the order of the collection
edgesElsewhere(eds, source) == SelectSeq(eds, LAMBDA e : e.source # source)

\* C26 - onConnect(s, t) replaces rather than adds: after the call the only
\* edge with source s is the edge to t, and the edges whose source is not s
\* are the ones there were before the call, in the same order.
C26_ConnectReplaces ==
  [][\A s \in idsOf(nodes) : \A t \in idsOf(nodes) :
       onConnect(s, t) =>
         /\ edgesFrom(edges', s) = <<[source |-> s, target |-> t]>>
         /\ edgesElsewhere(edges', s) = edgesElsewhere(edges, s)]_vars

\* node_0 is connected to node_1 and is the source of no other edge, while
\* node_1 is the source of an edge too
C26_Witness ==
  /\ edgesFrom(edges, getNodeId(0))
       = <<[source |-> getNodeId(0), target |-> getNodeId(1)]>>
  /\ edgesFrom(edges, getNodeId(1)) # <<>>
  /\ edges[Len(edges)].source = getNodeId(0)
  /\ Len(nodes) = 2

\* every edge has its source and its target among the nodes
noDanglingEdge(nds, eds) ==
  \A k \in 1..Len(eds) :
    eds[k].source \in idsOf(nds) /\ eds[k].target \in idsOf(nds)

\* the step removes a node or an edge: of the handlers of the canvas only the
\* Delete/Backspace handler does
deletes == Len(nodes') < Len(nodes) \/ Len(edges') < Len(edges)

\* C30 - Deleting nodes leaves no dangling edge.  After the Delete/Backspace
\* handler has removed the selected nodes, the nodes left are the unselected
\* ones as they were and in their order, every edge left has its source and
\* its target among them, and the edges left are edges between unselected
\* nodes, as they were and in their order: all of them when the step removed
\* no other edge.  Hence on a canvas that starts empty, whatever nodes are
\* added, connections drawn and selections deleted, every edge has both
\* endpoints in the node collection.
C30_NoDanglingEdge ==
  /\ [](noDanglingEdge(nodes, edges))
  /\ [][deletes =>
          LET keptIds == idsOf(nodes')
              between == SelectSeq(edges, LAMBDA e :
                           e.source \in keptIds /\ e.target \in keptIds)
              left == {e \in {between[k] : k \in 1..Len(between)} :
                         \E k \in 1..Len(edges') : edges'[k] = e}
          IN  /\ nodes' = SelectSeq(nodes, LAMBDA n : n.id \in keptIds)
              /\ noDanglingEdge(nodes', edges')
              /\ edges' = SelectSeq(between, LAMBDA e : e \in left)
              /\ Len(edges') = Len(between) => edges' = between
     ]_vars

\* node_0 was deleted: node_1 is left, the counter being at 2, together with
\* the connection from node_1 to itself
C30_Witness ==
  /\ nodeIdRef = 2
  /\ Len(nodes) = 1
  /\ nodes[1].id = getNodeId(1)
  /\ edges = <<[source |-> getNodeId(1), target |-> getNodeId(1)]>>

----------------------------------------------------------------------------
(* Start of a run *)

\* C27 - When resolution succeeds, runFlow discards every entry left from
\* before the run: when its first section ends the log holds the entries of
\* this run alone, and the first of them is the start marker, whose node
\* count is the length of the resolved sequence, the Start and the End node
\* counted.
C27_LogResetAtStart ==
  [][\A r \in RunIds :
       (runs[r].pc = "idle" /\ runs'[r].pc \in {"await", "done"}
          /\ runs'[r].outcome # "invalid") =>
         /\ logMessages' = appendedBy(r)
         /\ logMessages'[1] =
              [nodeId |-> "system", nodeName |-> "System",
               output |-> "Flow execution started with "
                            \o ToString(Len(runs'[r].executionOrder))
                            \o " nodes"]
         /\ \A k \in 2..Len(logMessages') : logMessages'[k].nodeId # "system"
    ]_vars

\* the second run was triggered once the first had completed with its
\* entries in the log: the log holds the start marker for three nodes and
\* the Start node's entry, both of the second run
C27_Witness ==
  /\ runs[1].outcome = "completed"
  /\ Len(emitted[1]) = 4
  /\ runs[2].pc = "await"
  /\ logMessages = emitted[2]
  /\ Len(logMessages) = 2
  /\ logMessages[1].output = "Flow execution started with 3 nodes"

----------------------------------------------------------------------------
(* The graph a run executes *)

\* the positions of the remote nodes of a sequence, in order
remotePositions(executionOrder) ==
  LET S == {i \in 1..Len(executionOrder) :
              executionOrder[i].nodeType \in RemoteTypes}
  IN  [k \in 1..Cardinality(S) |->
         CHOOSE i \in S : Cardinality({j \in S : j < i}) = k - 1]

\* the body carries the required parameters as the node holds them
carries(body, node) ==
  CASE node.nodeType = "LLM" ->
         body.userMessage = orElse(node.parameters, "userMessage", "")
    [] node.nodeType = "Web Scraping" ->
         /\ body.url = orElse(node.parameters, "url", "")
         /\ body.instruction = orElse(node.parameters, "instruction", "")
    [] node.nodeType = "Embedding Generator" ->
         body.text = orElse(node.parameters, "text", "")
    [] node.nodeType = "Similarity Search" ->
         body.query = orElse(node.parameters, "query", "")
    [] OTHER -> FALSE

\* C28 - A run executes the snapshot of the graph taken when it was
\* triggered.  The sequence a run holds is what getExecutionOrder returned
\* for the graph of the moment of the trigger, and no later step changes it,
\* whatever is renamed, saved, deleted or reconnected while the run is
\* suspended.  The requests of the run go, in order, to the remote nodes of
\* that sequence, each with the parameters its node had at the trigger; a
\* run that completes has called every one of them.
C28_RunExecutesSnapshot ==
  /\ [][\A r \in RunIds :
          /\ (runs[r].pc = "idle" /\ runs'[r].pc \in {"await", "done"}
                /\ runs'[r].outcome # "invalid") =>
               runs'[r].executionOrder = getExecutionOrder(nodes, edges).order
          /\ runs[r].pc \in {"await", "done"} =>
               runs'[r].executionOrder = runs[r].executionOrder]_vars
  /\ [](\A r \in RunIds :
          LET executionOrder == runs[r].executionOrder
              remote == remotePositions(executionOrder)
          IN  /\ Len(issued[r]) <= Len(remote)
              /\ issued[r] = SubSeq(remote, 1, Len(issued[r]))
              /\ runs[r].outcome = "completed" => issued[r] = remote
              /\ \A c \in inflightOf(r) :
                   /\ c.url = fetchUrl(executionOrder[c.idx].nodeType)
                   /\ carries(c.body, executionOrder[c.idx]))

\* While the run waited for node_1 the user saved another form for node_2,
\* connected node_0 to node_3 and deleted node_1; the run is now waiting for
\* node_2, called with the userMessage it had at the trigger.
C28_Witness ==
  /\ runs[1].pc = "await"
  /\ issued[1] = <<2, 3>>
  /\ getNodeId(1) \notin idsOf(nodes)
  /\ \E i \in 1..Len(nodes) :
       /\ nodes[i].id = getNodeId(2)
       /\ nodes[i].parameters = [key \in {"userMessage"} |-> "Hi"]
  /\ edges = <<[source |-> getNodeId(2), target |-> getNodeId(3)],
               [source |-> getNodeId(0), target |-> getNodeId(3)]>>
  /\ \E c \in inflight : c.idx = 3 /\ c.body.userMessage = "Hello"

----------------------------------------------------------------------------
(* Failed imports *)

\* the files importWorkflow gives up on
BrokenFiles ==
  [kind : {"unparsable", "nofields"}, nodes : {<<>>}, edges : {<<>>},
   nodeIdCounter : {NoCounter}]

\* C29 - A failed import changes no graph state: when the content of the
\* file is not valid JSON, or is a JSON value without a nodes or an edges
\* field, importWorkflow leaves the node collection, the edge collection and
\* the node id counter as they are, and the log then holds exactly one
\* entry, the failure entry.
C29_FailedImportKeepsGraph ==
  [][\A file \in BrokenFiles :
       importWorkflow(file) =>
         /\ nodes' = nodes
         /\ edges' = edges
         /\ nodeIdRef' = nodeIdRef
         /\ Len(logMessages') = 1
         /\ logMessages'[1].nodeId = "system"
         /\ logMessages'[1].output \in
              {"Failed to import workflow: JSON.parse error",
               "Failed to import workflow: Invalid workflow file format"}
    ]_vars

\* a file without the nodes field was picked with a chain of three nodes on
\* the canvas, exported before: the chain is still there and the log holds
\* the failure entry alone
C29_Witness ==
  /\ Len(nodes) = 3
  /\ Len(edges) = 2
  /\ nodeIdRef = 3
  /\ Len(downloads) = 1
  /\ logMessages = <<[nodeId |-> "system", nodeName |-> "System",
                      output |-> "Failed to import workflow: Invalid workflow file format"]>>

====
